---- MODULE Spec2Model ----
(***************************************************************************)
(* A model of src/src/dna_helper.py: the ambiguity table AMB_REGEX_DICT,   *)
(* dna_utility.conv_ambig_regex, the private __find_match, the two scan    *)
(* loops find_first_match / find_last_match and find_hamming_distance.     *)
(*                                                                         *)
(* A DNA string is a sequence of one-character strings.  A compiled regex  *)
(* "(?b)(f1 f2 ... fn){s<=k}" is the record of its fragments f1..fn (each  *)
(* the set of characters the fragment accepts) and its substitution        *)
(* budget k; (?b) is the regex module's BESTMATCH flag.                    *)
(***************************************************************************)
EXTENDS Integers, Sequences, FiniteSets, TLC

VARIABLES
    sequence,       \* conv_ambig_regex: the sequence argument
    mismatches,     \* conv_ambig_regex: the mismatches argument
    preserve_case,  \* conv_ambig_regex: the preserve_case argument
    target,         \* the target_dna argument of the two scans, as passed
    pc,             \* position of the caller / of the running function
    dna_regex,      \* what conv_ambig_regex returned or raised
    engine_calls,   \* the patterns handed to regex.compile, in order
    target_dna,     \* scan loops: the local target_dna (remaining suffix)
    cur_start,      \* scan loops: cur_start (0 while not yet assigned)
    cur_end,        \* scan loops: cur_end
    number_found,   \* scan loops: number_found
    first_span,     \* find_first_match: (first_start, first_end)
    last_span,      \* find_last_match: (last_start, last_end)
    first_result,   \* what find_first_match returned
    last_result,    \* what find_last_match returned
    target_seq,     \* find_hamming_distance: target_seq (the query)
    source_seq,     \* find_hamming_distance: source_seq (the reference)
    look_at_end,    \* find_hamming_distance: look_at_end
    dist            \* what find_hamming_distance returned

vars == <<sequence, mismatches, preserve_case, target, pc, dna_regex,
          engine_calls, target_dna, cur_start, cur_end, number_found,
          first_span, last_span, first_result, last_result,
          target_seq, source_seq, look_at_end, dist>>

scanVars == <<target_dna, cur_start, cur_end, number_found, first_span,
              last_span, first_result, last_result>>
compileVars == <<sequence, mismatches, preserve_case, target>>
hammingVars == <<target_seq, source_seq, look_at_end, dist>>

(***************************************************************************)
(* Bounds of the model.                                                    *)
(***************************************************************************)
MaxCompileLen == 2      \* longest sequence compiled on its own
MaxSeqLen == 2          \* longest query sequence that is scanned for
MaxTargetLen == 4       \* longest scanned target
MaxMismatches == 1      \* largest substitution budget
MaxHammingLen == 3      \* longest string given to find_hamming_distance

(***************************************************************************)
(* Characters.                                                             *)
(***************************************************************************)
NONE == "none"

\* The keys of AMB_REGEX_DICT.
TableKeys ==
    {"A", "a", "C", "c", "G", "g", "T", "t", "U", "u", "R", "r", "Y", "y",
     "S", "s", "W", "w", "K", "k", "M", "m", "B", "b", "D", "d", "V", "v",
     "H", "h", "N", "n", "I", "i"}

\* Characters that are no key of the table: an upper-case letter, a
\* lower-case letter, a symbol, and U+0131 (LATIN SMALL LETTER DOTLESS I),
\* written here by its name.
OtherChars == {"X", "z", "-", "dotless_i"}

AllChars == TableKeys \cup OtherChars

\* AMB_REGEX_DICT: each key's regex fragment, as the set of characters the
\* fragment accepts ("A" accepts A, "[AG]" accepts A and G).
AMB_REGEX_DICT ==
    [c \in TableKeys |->
        CASE c = "A" -> {"A"}  [] c = "a" -> {"a"}
          [] c = "C" -> {"C"}  [] c = "c" -> {"c"}
          [] c = "G" -> {"G"}  [] c = "g" -> {"g"}
          [] c = "T" -> {"T"}  [] c = "t" -> {"t"}
          [] c = "U" -> {"U"}  [] c = "u" -> {"u"}
          [] c = "R" -> {"A", "G"}  [] c = "r" -> {"a", "g"}
          [] c = "Y" -> {"C", "T"}  [] c = "y" -> {"c", "t"}
          [] c = "S" -> {"G", "C"}  [] c = "s" -> {"g", "c"}
          [] c = "W" -> {"A", "T"}  [] c = "w" -> {"a", "t"}
          [] c = "K" -> {"G", "T"}  [] c = "k" -> {"g", "t"}
          [] c = "M" -> {"A", "C"}  [] c = "m" -> {"A", "C"}
          [] c = "B" -> {"C", "G", "T"}  [] c = "b" -> {"c", "g", "t"}
          [] c = "D" -> {"A", "G", "T"}  [] c = "d" -> {"a", "g", "t"}
          [] c = "V" -> {"A", "C", "T"}  [] c = "v" -> {"a", "c", "t"}
          [] c = "H" -> {"A", "C", "G"}  [] c = "h" -> {"a", "c", "g"}
          [] c = "N" -> {"A", "C", "G", "T"}
          [] c = "n" -> {"a", "c", "g", "t"}
          [] c = "I" -> {"A", "C", "G", "T"}
          [] c = "i" -> {"a", "c", "g", "t"}]

\* str.upper() on one character: the ASCII lower-case letters go to their
\* capitals, U+0131 goes to "I" (its Unicode upper-case mapping), and a
\* character with no upper-case form is unchanged.
upper_char(c) ==
    CASE c = "a" -> "A" [] c = "c" -> "C" [] c = "g" -> "G" [] c = "t" -> "T"
      [] c = "u" -> "U" [] c = "r" -> "R" [] c = "y" -> "Y" [] c = "s" -> "S"
      [] c = "w" -> "W" [] c = "k" -> "K" [] c = "m" -> "M" [] c = "b" -> "B"
      [] c = "d" -> "D" [] c = "v" -> "V" [] c = "h" -> "H" [] c = "n" -> "N"
      [] c = "i" -> "I" [] c = "z" -> "Z" [] c = "dotless_i" -> "I"
      [] OTHER -> c

\* sequence.upper()
upper(s) == [i \in 1..Len(s) |-> upper_char(s[i])]

\* All sequences over chars of a length in lo..hi.
SeqsOver(chars, lo, hi) == UNION {[1..n -> chars] : n \in lo..hi}


Min(S) == CHOOSE x \in S : \A y \in S : x <= y
Max(S) == CHOOSE x \in S : \A y \in S : x >= y

(***************************************************************************)
(* conv_ambig_regex                                                        *)
(***************************************************************************)

\* build_pattern with the case test lost: the sequence is always upper-cased.
build_pattern_always_upper(seq, mism, keep_case) ==
    LET s == upper(seq)
        bad == {i \in 1..Len(s) : s[i] \notin DOMAIN AMB_REGEX_DICT}
    IN  IF bad # {}
        THEN [status |-> "KeyError", char |-> s[Min(bad)],
              frags |-> <<>>, s |-> 0]
        ELSE [status |-> "ok", char |-> NONE,
              frags |-> [i \in 1..Len(s) |-> AMB_REGEX_DICT[s[i]]],
              s |-> mism]

\* Lines 92-100: the pattern text built from the arguments, or the KeyError
\* raised at the first character that is no key of AMB_REGEX_DICT.
build_pattern(seq, mism, keep_case) ==
    LET s == IF ~keep_case THEN upper(seq) ELSE seq
        bad == {i \in 1..Len(s) : s[i] \notin DOMAIN AMB_REGEX_DICT}
    IN  IF bad # {}
        THEN [status |-> "KeyError", char |-> s[Min(bad)],
              frags |-> <<>>, s |-> 0]
        ELSE [status |-> "ok", char |-> NONE,
              frags |-> [i \in 1..Len(s) |-> AMB_REGEX_DICT[s[i]]],
              s |-> mism]

\* Line 101, regex.compile(dna_regex): a budget of 0 or more gives the fuzzy
\* pattern {s<=k}.  The text "{s<=-1}" of a negative budget is no fuzzy
\* constraint of the regex module; what the module makes of it (an error, or
\* a pattern of some other meaning) is the library's choice.
regex_compile(pattern) ==
    IF pattern.s >= 0
    THEN {pattern}
    ELSE {pattern, [pattern EXCEPT !.status = "regex.error"]}

\* conv_ambig_regex(sequence, mismatches, preserve_case), called by the
\* caller at pc = "compile".
conv_ambig_regex ==
    /\ pc = "compile"
    /\ LET built == build_pattern(sequence, mismatches, preserve_case)
       IN  IF built.status = "KeyError"
           THEN /\ dna_regex' = built
                /\ engine_calls' = engine_calls
                /\ pc' = "raised"
           ELSE /\ engine_calls' = Append(engine_calls,
                                      [frags |-> built.frags, s |-> built.s])
                /\ \E r \in regex_compile(built) :
                      /\ dna_regex' = r
                      /\ pc' = IF r.status = "ok" THEN "first_call"
                                                  ELSE "raised"
    /\ UNCHANGED <<compileVars, scanVars, hammingVars>>

(***************************************************************************)
(* __find_match and the regex module's search                              *)
(***************************************************************************)

\* The number of substitutions that make the window of text starting at
\* 0-based offset i match the fragments.
substitutions(frags, text, i) ==
    Cardinality({j \in 1..Len(frags) : text[i + j] \notin frags[j]})

\* matcher_regex.search(target_dna) for a pattern (?b)(...){s<=k}: each
\* fragment takes one character, a substitution replaces one character by
\* one character, so a match is a window as long as the pattern with at most
\* k substitutions.  Under BESTMATCH the match returned is one with the
\* fewest substitutions in the whole text, the leftmost of these.  The value
\* is the match's span, or the empty tuple for Python's None.
regex_search(regex, text) ==
    LET n == Len(regex.frags)
        ok == {i \in 0..(Len(text) - n) :
                  substitutions(regex.frags, text, i) <= regex.s}
    IN  IF ok = {} THEN <<>>
        ELSE LET least == Min({substitutions(regex.frags, text, i) : i \in ok})
                 i0 == Min({i \in ok :
                              substitutions(regex.frags, text, i) = least})
             IN  <<i0, i0 + n>>

\* __find_match, lines 125-129.
find_match(matcher_regex, text) ==
    LET firstmatch == regex_search(matcher_regex, text)
    IN  IF firstmatch = <<>> THEN <<-1, -1>> ELSE firstmatch

\* slice_from with the cursor lost: target_dna[0:].
slice_from_start(text, from) == text

\* The slice target_dna[cur_end:] of lines 157 and 196.
slice_from(text, from) ==
    LET start == IF from >= 0 THEN from ELSE Max({Len(text) + from, 0})
    IN  SubSeq(text, start + 1, Len(text))


(***************************************************************************)
(* find_first_match                                                        *)
(***************************************************************************)

\* first_frame counting the first match where it is first found, before the
\* loop finds it again.
first_frame_double_count(matcher_regex, text) ==
    LET span == find_match(matcher_regex, text)
    IN  [span |-> span, cur_end |-> 0,
         number_found |-> IF span[1] = -1 THEN 0 ELSE 1]

\* first_frame with the loop starting past the first match, which is then
\* never counted.
first_frame_after_first(matcher_regex, text) ==
    LET span == find_match(matcher_regex, text)
    IN  [span |-> span, cur_end |-> IF span[1] = -1 THEN 0 ELSE span[2],
         number_found |-> 0]

\* Lines 191-194: the frame of find_first_match before its loop.
first_frame(matcher_regex, text) ==
    [span |-> find_match(matcher_regex, text), cur_end |-> 0,
     number_found |-> 0]

\* Line 202.
first_return(span, found) == <<span[1], span[2], found>>

find_first_match_call ==
    /\ pc = "first_call"
    /\ LET f == first_frame(dna_regex, target)
       IN  /\ first_span' = f.span
           /\ cur_end' = f.cur_end
           /\ number_found' = f.number_found
    /\ target_dna' = target
    /\ cur_start' = 0
    /\ pc' = "first_loop"
    /\ UNCHANGED <<compileVars, dna_regex, engine_calls, last_span,
                   first_result, last_result, hammingVars>>

\* One pass of the loop of lines 195-201.
find_first_match_iter ==
    /\ pc = "first_loop"
    /\ LET rest == slice_from(target_dna, cur_end)
           m == find_match(dna_regex, rest)
       IN  /\ target_dna' = rest
           /\ cur_start' = m[1]
           /\ cur_end' = m[2]
           /\ IF m[1] = -1
              THEN /\ pc' = "first_return"
                   /\ number_found' = number_found
              ELSE /\ pc' = "first_loop"
                   /\ number_found' = number_found + 1
    /\ UNCHANGED <<compileVars, dna_regex, engine_calls, first_span,
                   last_span, first_result, last_result, hammingVars>>

find_first_match_return ==
    /\ pc = "first_return"
    /\ first_result' = first_return(first_span, number_found)
    /\ pc' = "last_call"
    /\ UNCHANGED <<compileVars, dna_regex, engine_calls, target_dna,
                   cur_start, cur_end, number_found, first_span, last_span,
                   last_result, hammingVars>>

(***************************************************************************)
(* find_last_match                                                         *)
(***************************************************************************)

\* accumulate with the offsets left relative to the remaining suffix.
accumulate_suffix_offsets(span, m_start, m_end) == <<m_start, m_end>>

\* Lines 163-164: the span of the match just found, from the end of the
\* match before it and the new match's offsets into the remaining suffix.
accumulate(span, m_start, m_end) == <<span[2] + m_start, span[2] + m_end>>

\* last_return testing the start alone for "nothing found".
last_return_start_only(span, found) ==
    IF span[1] = 0
    THEN <<-1, -1, found>>
    ELSE <<span[1], span[2], found>>

\* Lines 165-168.
last_return(span, found) ==
    IF span[1] = 0 /\ span[2] = 0
    THEN <<-1, -1, found>>
    ELSE <<span[1], span[2], found>>

\* Lines 152-155.
find_last_match_call ==
    /\ pc = "last_call"
    /\ cur_end' = 0
    /\ last_span' = <<0, 0>>
    /\ number_found' = 0
    /\ target_dna' = target
    /\ cur_start' = 0
    /\ pc' = "last_loop"
    /\ UNCHANGED <<compileVars, dna_regex, engine_calls, first_span,
                   first_result, last_result, hammingVars>>

\* One pass of the loop of lines 156-164.
find_last_match_iter ==
    /\ pc = "last_loop"
    /\ LET rest == slice_from(target_dna, cur_end)
           m == find_match(dna_regex, rest)
       IN  /\ target_dna' = rest
           /\ cur_start' = m[1]
           /\ cur_end' = m[2]
           /\ IF m[1] = -1
              THEN /\ pc' = "last_return"
                   /\ number_found' = number_found
                   /\ last_span' = last_span
              ELSE /\ pc' = "last_loop"
                   /\ number_found' = number_found + 1
                   /\ last_span' = accumulate(last_span, m[1], m[2])
    /\ UNCHANGED <<compileVars, dna_regex, engine_calls, first_span,
                   first_result, last_result, hammingVars>>

find_last_match_return ==
    /\ pc = "last_return"
    /\ last_result' = last_return(last_span, number_found)
    /\ pc' = "done"
    /\ UNCHANGED <<compileVars, dna_regex, engine_calls, target_dna,
                   cur_start, cur_end, number_found, first_span, last_span,
                   first_result, hammingVars>>

(***************************************************************************)
(* find_hamming_distance                                                   *)
(***************************************************************************)

\* textdistance's hamming.distance(a, b): the two strings are walked side by
\* side to the end of the longer one, and every position where they differ,
\* or where one of them has ended, counts.
hamming_distance(a, b) ==
    Cardinality({i \in 1..Max({Len(a), Len(b)}) :
                    \/ i > Len(a)
                    \/ i > Len(b)
                    \/ a[i] # b[i]})

\* window with the trailing window taken by a negative index,
\* source_seq[-tlen:], which is the whole string for tlen = 0.
window_negative_index(src, tlen, at_end) ==
    IF at_end
    THEN slice_from(src, 0 - tlen)
    ELSE SubSeq(src, 1, Min({tlen, Len(src)}))

\* Lines 230-233: the window of source_seq that is compared.
window(src, tlen, at_end) ==
    IF at_end
    THEN slice_from(src, Len(src) - tlen)
    ELSE SubSeq(src, 1, Min({tlen, Len(src)}))

\* Lines 226-234.
hamming_result(tseq, sseq, at_end) ==
    LET tlen == Len(tseq)
        slen == Len(sseq)
    IN  IF tlen > slen
        THEN tlen
        ELSE hamming_distance(tseq, window(sseq, tlen, at_end))

find_hamming_distance ==
    /\ pc = "hamming"
    /\ dist' = hamming_result(target_seq, source_seq, look_at_end)
    /\ pc' = "returned"
    /\ UNCHANGED <<compileVars, dna_regex, engine_calls, scanVars,
                   target_seq, source_seq, look_at_end>>


(***************************************************************************)
(* Specifications                                                          *)
(***************************************************************************)

\* No pattern yet.
Unset == [status |-> "unset", char |-> NONE, frags |-> <<>>, s |-> 0]

\* The frame of a function that has not been called.
NoScan ==
    /\ target_dna = <<>>
    /\ cur_start = 0
    /\ cur_end = 0
    /\ number_found = 0
    /\ first_span = <<0, 0>>
    /\ last_span = <<0, 0>>
    /\ first_result = <<>>
    /\ last_result = <<>>

NoHamming ==
    /\ target_seq = <<>>
    /\ source_seq = <<>>
    /\ look_at_end = TRUE
    /\ dist = 0

\* Budgets below zero that a caller may pass.
NegativeBudgets == {-1}

\* The symbols of the query sequences that are scanned for: concrete bases in
\* both cases and an ambiguity code.
ScanSeqChars == {"A", "C", "a", "N"}

\* The characters of the scanned targets: concrete bases, in both cases.
TargetChars == {"A", "C", "a"}

\* The characters of the strings given to find_hamming_distance.
HammingChars == {"A", "C", "G", "T"}

\* The worked examples of find_hamming_distance: (query, reference).
HammingExamples ==
    {<< <<"A", "C", "G", "T">>, <<"T", "T", "T", "T", "A", "C", "G", "T">> >>,
     << <<"A", "C", "G", "T">>, <<"A", "C", "T", "T">> >>,
     << <<"A", "C", "G", "T", "A", "C", "G", "T">>, <<"A", "C", "G", "T">> >>}

\* conv_ambig_regex on its own: every sequence over the table's keys and the
\* other characters, every budget, both values of preserve_case.
InitCompile ==
    /\ sequence \in SeqsOver(AllChars, 0, MaxCompileLen)
    /\ mismatches \in (0..MaxMismatches) \cup NegativeBudgets
    /\ preserve_case \in BOOLEAN
    /\ target = <<>>
    /\ pc = "compile"
    /\ dna_regex = Unset
    /\ engine_calls = <<>>
    /\ NoScan
    /\ NoHamming

NextCompile == conv_ambig_regex

SpecCompile == InitCompile /\ [][NextCompile]_vars

\* A caller that compiles a non-empty query and then calls find_first_match
\* and find_last_match with the pattern on one target.
InitScan ==
    /\ sequence \in SeqsOver(ScanSeqChars, 1, MaxSeqLen)
    /\ mismatches \in 0..MaxMismatches
    /\ preserve_case \in BOOLEAN
    /\ target \in SeqsOver(TargetChars, 0, MaxTargetLen)
    /\ pc = "compile"
    /\ dna_regex = Unset
    /\ engine_calls = <<>>
    /\ NoScan
    /\ NoHamming

NextScan ==
    \/ conv_ambig_regex
    \/ find_first_match_call
    \/ find_first_match_iter
    \/ find_first_match_return
    \/ find_last_match_call
    \/ find_last_match_iter
    \/ find_last_match_return

SpecScan == InitScan /\ [][NextScan]_vars

\* The symbols and characters of the runs checked for termination: a base
\* and the code that matches every base; two bases.  The queries are upper
\* case, so preserve_case keeps its default.
LoopSeqChars == {"A", "N"}
LoopTargetChars == {"A", "C"}

InitLoops ==
    /\ sequence \in SeqsOver(LoopSeqChars, 1, MaxSeqLen)
    /\ mismatches \in 0..MaxMismatches
    /\ preserve_case = FALSE
    /\ target \in SeqsOver(LoopTargetChars, 0, MaxTargetLen)
    /\ pc = "compile"
    /\ dna_regex = Unset
    /\ engine_calls = <<>>
    /\ NoScan
    /\ NoHamming

\* The scans as they run: a function that is called keeps executing, so a
\* step that can be taken is taken.
FairScan == InitLoops /\ [][NextScan]_vars /\ WF_vars(NextScan)

InitHamming ==
    /\ \E p \in (SeqsOver(HammingChars, 0, MaxHammingLen)
                   \X SeqsOver(HammingChars, 0, MaxHammingLen))
                \cup HammingExamples :
          /\ target_seq = p[1]
          /\ source_seq = p[2]
    /\ look_at_end \in BOOLEAN
    /\ dist = 0
    /\ pc = "hamming"
    /\ sequence = <<>>
    /\ mismatches = 0
    /\ preserve_case = FALSE
    /\ target = <<>>
    /\ dna_regex = Unset
    /\ engine_calls = <<>>
    /\ NoScan

NextHamming == find_hamming_distance

SpecHamming == InitHamming /\ [][NextHamming]_vars


(***************************************************************************)
(* Properties                                                              *)
(***************************************************************************)

\* The concrete bases each symbol stands for (IUPAC), upper case.
IupacBases(c) ==
    CASE c = "A" -> {"A"} [] c = "C" -> {"C"} [] c = "G" -> {"G"}
      [] c = "T" -> {"T"} [] c = "U" -> {"U"}
      [] c = "R" -> {"A", "G"} [] c = "Y" -> {"C", "T"}
      [] c = "S" -> {"G", "C"} [] c = "W" -> {"A", "T"}
      [] c = "K" -> {"G", "T"} [] c = "M" -> {"A", "C"}
      [] c = "B" -> {"C", "G", "T"} [] c = "D" -> {"A", "G", "T"}
      [] c = "H" -> {"A", "C", "T"} [] c = "V" -> {"A", "C", "G"}
      [] c = "N" -> {"A", "C", "G", "T"} [] c = "I" -> {"A", "C", "G", "T"}

UpperKeys ==
    {"A", "C", "G", "T", "U", "R", "Y", "S", "W", "K", "M", "B", "D", "H",
     "V", "N", "I"}

\* The lower-case letter of an upper-case key.
LowerOf(c) == CHOOSE l \in TableKeys \ UpperKeys : upper_char(l) = c

\* The bases a symbol of the table stands for, in the symbol's own case.
Represents(c) ==
    IF c \in UpperKeys
    THEN IupacBases(c)
    ELSE {LowerOf(b) : b \in IupacBases(upper_char(c))}

\* conv_ambig_regex has returned or raised.
Compiled == pc # "compile"

\* The characters the compiled pattern matches as a one-character text.
MatchedChars == {c \in AllChars : regex_search(dna_regex, <<c>>) # <<>>}

\* C1: the pattern compiled from the one-character sequence of a symbol of
\* the table, with mismatches = 0 and preserve_case = True, matches exactly
\* the concrete bases the symbol stands for, in the symbol's case.
C1_SymbolMatchesItsBases ==
    (/\ Compiled
     /\ Len(sequence) = 1
     /\ mismatches = 0
     /\ preserve_case)
    => (sequence[1] \in TableKeys
        => /\ dna_regex.status = "ok"
           /\ MatchedChars = Represents(sequence[1]))

\* C3: a sequence holding a character that is no key of the table makes
\* conv_ambig_regex raise KeyError, whatever the budget and preserve_case.
C3_OutsideCharRaises ==
    (/\ Compiled
     /\ \E i \in 1..Len(sequence) : sequence[i] \notin TableKeys)
    => /\ dna_regex.status = "KeyError"
       /\ pc = "raised"
       /\ engine_calls = <<>>

\* C8: a negative budget is rejected with an invalid-argument error before
\* the budget reaches the pattern and the regex engine.
C8_NegativeBudgetRejected ==
    (Compiled /\ mismatches < 0)
    => /\ dna_regex.status = "InvalidArgument"
       /\ engine_calls = <<>>

\* The number of positions where query and the window of reference at offset
\* off differ.
Differences(query, reference, off) ==
    Cardinality({i \in 1..Len(query) : query[i] # reference[off + i]})

\* C2: find_hamming_distance returns len(query) for a query longer than the
\* reference, and otherwise the number of positions where the query differs
\* from the last (look_at_end) or first len(query) characters of the
\* reference; 0 for the empty query, and the two worked examples.
C2_HammingDistance ==
    pc = "returned"
    => /\ dist = IF Len(target_seq) > Len(source_seq)
                 THEN Len(target_seq)
                 ELSE Differences(target_seq, source_seq,
                         IF look_at_end
                         THEN Len(source_seq) - Len(target_seq) ELSE 0)
       /\ target_seq = <<>> => dist = 0
       /\ (/\ target_seq = <<"A", "C", "G", "T">>
           /\ source_seq = <<"T", "T", "T", "T", "A", "C", "G", "T">>
           /\ look_at_end) => dist = 0
       /\ (/\ target_seq = <<"A", "C", "G", "T">>
           /\ source_seq = <<"A", "C", "T", "T">>
           /\ ~look_at_end) => dist = 1

\* C2's case: a trailing window that differs from the leading one.
C2_Witness ==
    /\ pc = "returned"
    /\ target_seq = <<"A", "C", "G", "T">>
    /\ source_seq = <<"T", "T", "T", "T", "A", "C", "G", "T">>
    /\ look_at_end
    /\ dist = 0


\* Both scans have returned.
ScansDone == pc = "done"

\* The length of the compiled pattern.
PatternLen == Len(dna_regex.frags)

\* The number of positions where the window of the target at 0-based offset
\* i is outside the pattern's fragments.
WindowErrors(i) ==
    Cardinality({j \in 1..PatternLen : target[i + j] \notin dna_regex.frags[j]})

\* The offsets where a window of the target matches within the budget, and
\* those where it matches with no substitution.
MatchStarts ==
    {i \in 0..(Len(target) - PatternLen) : WindowErrors(i) <= dna_regex.s}
ExactStarts ==
    {i \in 0..(Len(target) - PatternLen) : WindowErrors(i) = 0}

Sentinel(result) == result[1] = -1 /\ result[2] = -1

\* C4: each scan returns the span (-1, -1) exactly when it returns count 0,
\* and that exactly when no window of the target matches within the budget.
C4_SentinelIffNoMatch ==
    ScansDone
    => \A result \in {first_result, last_result} :
          /\ Sentinel(result) <=> result[3] = 0
          /\ result[3] = 0 <=> MatchStarts = {}

\* C4's case: a target as long as the pattern or longer with no match.
C4_Witness ==
    /\ ScansDone
    /\ Len(target) > PatternLen
    /\ MatchStarts = {}
    /\ first_result = <<-1, -1, 0>>
    /\ last_result = <<-1, -1, 0>>

\* The offsets where the query sequence itself occurs in the target.
Occurrences ==
    {i \in 0..(Len(target) - Len(sequence)) :
        SubSeq(target, i + 1, i + Len(sequence)) = sequence}

\* The span returned covers the leftmost occurrence of the query, counted.
FirstIsLeftmostOccurrence ==
    /\ first_result[3] >= 1
    /\ first_result[1] = Min(Occurrences)
    /\ first_result[2] = first_result[1] + Len(sequence)
    /\ SubSeq(target, first_result[1] + 1, first_result[2]) = sequence

\* C5 as stated: for a non-empty exact substring S of an unambiguous target,
\* find_first_match(conv_ambig_regex(S, 0), T), the pattern compiled with
\* the default preserve_case = False, returns the leftmost occurrence of S
\* and a count of at least 1.
C5_Original ==
    (/\ ScansDone
     /\ mismatches = 0
     /\ ~preserve_case
     /\ Occurrences # {})
    => FirstIsLeftmostOccurrence

LowerCaseLetters == {"a", "c", "g", "t", "u"}

\* C5, amended: the same when S has no lower-case letter, or when the
\* pattern is compiled with preserve_case = True.
C5_SubstringFound ==
    (/\ ScansDone
     /\ mismatches = 0
     /\ Occurrences # {}
     /\ \/ preserve_case
        \/ \A i \in 1..Len(sequence) : sequence[i] \notin LowerCaseLetters)
    => FirstIsLeftmostOccurrence

\* C5's case: a lower-case query that occurs twice, the first time not at
\* the start of the target.
C5_Witness ==
    /\ ScansDone
    /\ mismatches = 0
    /\ preserve_case
    /\ \E i \in 1..Len(sequence) : sequence[i] \in LowerCaseLetters
    /\ Cardinality(Occurrences) >= 2
    /\ first_result[1] = Min(Occurrences)
    /\ first_result[1] > 0

\* The span returned by find_last_match lies in the target and matches.
LastSpanMatches ==
    last_result[3] >= 1
    => /\ 0 <= last_result[1]
       /\ last_result[1] < last_result[2]
       /\ last_result[2] <= Len(target)
       /\ last_result[2] = last_result[1] + PatternLen
       /\ last_result[1] \in MatchStarts

\* Two offsets p < q of windows that do not overlap.
TwoDisjoint(S) ==
    /\ Cardinality(S) = 2
    /\ Min(S) + PatternLen <= Max(S)

\* C6 as stated: the span of find_last_match is a match, in offsets of the
\* original target; and on a target with two disjoint occurrences of the
\* query it is the span of the second occurrence, with count 2.
C6_Original ==
    ScansDone
    => /\ LastSpanMatches
       /\ TwoDisjoint(ExactStarts)
          => last_result = <<Max(ExactStarts), Max(ExactStarts) + PatternLen, 2>>

\* C6, amended: the second part holds on a target whose only matches within
\* the budget are two disjoint exact occurrences of the query.
C6_LastSpan ==
    ScansDone
    => /\ LastSpanMatches
       /\ (TwoDisjoint(ExactStarts) /\ MatchStarts = ExactStarts)
          => last_result = <<Max(ExactStarts), Max(ExactStarts) + PatternLen, 2>>

\* C6's case: two disjoint occurrences of a two-symbol query under a budget
\* of one substitution, the second occurrence not adjacent to the start.
C6_Witness ==
    /\ ScansDone
    /\ mismatches = 1
    /\ PatternLen = 2
    /\ TwoDisjoint(ExactStarts)
    /\ MatchStarts = ExactStarts
    /\ last_result = <<2, 4, 2>>

\* C7: on a target with exactly one match both scans return the same span
\* and count 1.
C7_OneMatchSameSpan ==
    (ScansDone /\ Cardinality(MatchStarts) = 1)
    => /\ first_result = last_result
       /\ first_result[3] = 1
       /\ first_result[1] \in MatchStarts

\* C7's case: one match, with a substitution, away from the target's start.
C7_Witness ==
    /\ ScansDone
    /\ Cardinality(MatchStarts) = 1
    /\ ExactStarts = {}
    /\ first_result[1] > 0
    /\ first_result = last_result


\* The number of matches a scan finds from 0-based offset pos of the target:
\* the best match at or after pos (fewest substitutions, then leftmost) is
\* counted and the scan goes on just past its end.
RECURSIVE ScanCount(_)
ScanCount(pos) ==
    LET starts == {i \in MatchStarts : i >= pos}
    IN  IF starts = {} THEN 0
        ELSE LET least == Min({WindowErrors(i) : i \in starts})
                 found == Min({i \in starts : WindowErrors(i) = least})
             IN  1 + ScanCount(found + PatternLen)

\* C9: find_first_match and find_last_match return the same count, the
\* number of non-overlapping matches of one scan of the target in which each
\* search starts just past the previous match; the first match counts once.
C9_SameCount ==
    ScansDone
    => /\ first_result[3] = last_result[3]
       /\ first_result[3] = ScanCount(0)

\* C9's case: several matches, the first of them found by both searches of
\* find_first_match.
C9_Witness ==
    /\ ScansDone
    /\ first_result[1] >= 0
    /\ first_result[3] >= 3
    /\ last_result[3] = first_result[3]

InLoop == pc \in {"first_loop", "last_loop"}

\* The number of characters of the target the running scan has consumed.
Consumed == Len(target) - Len(target_dna) + cur_end

\* C10: the scan loops end.  A pass of a loop that finds a match moves the
\* cursor forward by at least one character, the count never exceeds
\* len(target) divided by the pattern's length, and both scans return.
C10_ScansTerminate ==
    /\ [][(InLoop /\ number_found' = number_found + 1 /\ pc' = pc)
            => /\ Consumed' > Consumed
               /\ Consumed' <= Len(target)]_vars
    /\ [](PatternLen >= 1 => number_found * PatternLen <= Len(target))
    /\ <>ScansDone

\* C10's case: both scans have consumed a whole target of four characters in
\* four matches of a one-symbol pattern, the most the bound allows.
C10_Witness ==
    /\ ScansDone
    /\ Len(target) = 4
    /\ first_result = <<0, 1, 4>>
    /\ last_result = <<3, 4, 4>>

====
